---------------------------- MODULE Spec2Model ----------------------------
(***************************************************************************)
(* A model of the valarx/raytracer path tracer: vector algebra             *)
(* (src/src/vec_math/vec3.rs), sphere and scene intersection and the       *)
(* recursive integrator (src/src/ray_tracing.rs), the three materials      *)
(* (src/src/material.rs) and the render loop (src/src/main.rs).            *)
(*                                                                         *)
(* Numbers.  An f64 is modelled as an exact rational with a sign on zero:  *)
(* [n |-> numerator, d |-> denominator > 0, nz |-> "is -0.0"].  Addition,  *)
(* subtraction, multiplication and division are exact and follow the IEEE  *)
(* rules for the sign of a zero result; sqrt is exact on rational squares  *)
(* and rounded down to a multiple of 1/SqrtDen otherwise.  +infinity is    *)
(* 1/0 and only ever compared.  NaN is not modelled: every input drawn     *)
(* below has a non-zero direction and a positive radius.                   *)
(***************************************************************************)
EXTENDS Integers, Sequences, FiniteSets, TLC

(***************************************************************************)
(* Bounds of the model.                                                    *)
(***************************************************************************)
\* sqrt of a non-square is rounded down to a multiple of 1/SqrtDen
SqrtDen == 8
\* rng.gen::<f64>() yields k/RngDen, k in 0..RngDen-1
RngDen == 4

(***************************************************************************)
(* f64 arithmetic                                                          *)
(***************************************************************************)
Abs(i) == IF i < 0 THEN -i ELSE i

RECURSIVE Gcd(_, _)
Gcd(a, b) == IF b = 0 THEN a ELSE Gcd(b, a % b)

\* the f64 n/d, in lowest terms; nz is kept only on a zero
Mk(n, d, nz) ==
    LET g == Gcd(Abs(n), d)
    IN  [n |-> n \div g, d |-> d \div g, nz |-> (n = 0 /\ nz)]

I(k) == [n |-> k, d |-> 1, nz |-> FALSE]
Q(a, b) == Mk(a, b, FALSE)
NegZero == [n |-> 0, d |-> 1, nz |-> TRUE]
INFINITY == [n |-> 1, d |-> 0, nz |-> FALSE]

\* f64::is_sign_negative: the sign bit, set on negative numbers and on -0.0
IsSignNegative(x) == x.n < 0 \/ (x.n = 0 /\ x.nz)

FNeg(x) == [n |-> -x.n, d |-> x.d, nz |-> (x.n = 0 /\ ~x.nz)]

\* x + y: a zero sum is -0.0 only when both operands are -0.0
FAdd(x, y) == Mk(x.n * y.d + y.n * x.d, x.d * y.d, x.n = 0 /\ y.n = 0 /\ x.nz /\ y.nz)

FSub(x, y) == FAdd(x, FNeg(y))

\* x * y: the sign of a zero product is the xor of the signs
FMul(x, y) == Mk(x.n * y.n, x.d * y.d, IsSignNegative(x) # IsSignNegative(y))

\* x / y, y # 0
FDiv(x, y) ==
    Mk((IF y.n < 0 THEN -1 ELSE 1) * x.n * y.d, x.d * Abs(y.n),
       IsSignNegative(x) # IsSignNegative(y))

\* comparisons: -0.0 = +0.0, and everything finite is below INFINITY
FLt(x, y) == x.n * y.d < y.n * x.d
FLe(x, y) == x.n * y.d <= y.n * x.d
FGt(x, y) == FLt(y, x)
FGe(x, y) == FLe(y, x)
FEq(x, y) == x.n * y.d = y.n * x.d

FAbs(x) == [n |-> Abs(x.n), d |-> x.d, nz |-> FALSE]
\* f64::min
FMin(x, y) == IF FLt(y, x) THEN y ELSE x

RECURSIVE ISqrtIter(_, _, _)
ISqrtIter(k, lo, hi) ==
    IF lo >= hi THEN lo
    ELSE LET mid == (lo + hi + 1) \div 2
         IN  IF mid * mid <= k THEN ISqrtIter(k, mid, hi) ELSE ISqrtIter(k, lo, mid - 1)

\* floor of the square root of a natural number below 2^30
ISqrt(k) == ISqrtIter(k, 0, IF k < 32768 THEN k ELSE 32768)

IsSquare(k) == ISqrt(k) * ISqrt(k) = k

\* f64::sqrt on x >= 0: exact on a rational square, else rounded down to 1/SqrtDen
FSqrt(x) ==
    IF x.n = 0 THEN x
    ELSE IF IsSquare(x.n) /\ IsSquare(x.d) THEN Mk(ISqrt(x.n), ISqrt(x.d), FALSE)
    ELSE Mk(ISqrt((x.n * SqrtDen * SqrtDen) \div x.d), SqrtDen, FALSE)

\* f64::powi(5)
FPow5(x) == FMul(FMul(FMul(FMul(x, x), x), x), x)

(***************************************************************************)
(* Vec3 (also Point3 and Color): <<x, y, z>>                               *)
(***************************************************************************)
Vec3New(x, y, z) == <<x, y, z>>
VI(x, y, z) == <<I(x), I(y), I(z)>>

VAdd(a, b) == <<FAdd(a[1], b[1]), FAdd(a[2], b[2]), FAdd(a[3], b[3])>>
VSub(a, b) == <<FSub(a[1], b[1]), FSub(a[2], b[2]), FSub(a[3], b[3])>>
VNeg(a) == <<FNeg(a[1]), FNeg(a[2]), FNeg(a[3])>>
\* Vec3 * f64 and f64 * Vec3
VScale(a, k) == <<FMul(a[1], k), FMul(a[2], k), FMul(a[3], k)>>
\* Vec3 / f64
VDiv(a, k) == <<FDiv(a[1], k), FDiv(a[2], k), FDiv(a[3], k)>>
\* Vec3 * Vec3: the dot product
Dot(a, b) == FAdd(FAdd(FMul(a[1], b[1]), FMul(a[2], b[2])), FMul(a[3], b[3]))
\* component-wise equality of values (-0.0 = +0.0)
VEq(a, b) == FEq(a[1], b[1]) /\ FEq(a[2], b[2]) /\ FEq(a[3], b[3])

LenSquared(a) == Dot(a, a)
VLen(a) == FSqrt(LenSquared(a))
ToUnit(a) == VDiv(a, VLen(a))

CrossProduct(a, b) ==
    <<FSub(FMul(a[2], b[3]), FMul(a[3], b[2])),
      FSub(FMul(a[3], b[1]), FMul(a[1], b[3])),
      FSub(FMul(a[1], b[2]), FMul(a[2], b[1]))>>

\* v - (2 v . n) n
Reflect(v, normal) == VSub(v, VScale(normal, Dot(VScale(v, I(2)), normal)))

\* Vec3::refract with the parallel part pointing out of the surface
RefractParallelOutward(v, normal, refraction_ratio) ==
    LET cos_theta == FMin(Dot(VNeg(v), normal), I(1))
        r_out_perp == VScale(VAdd(v, VScale(normal, cos_theta)), refraction_ratio)
        r_out_parallel ==
            VScale(normal, FSqrt(FAbs(FSub(I(1), LenSquared(r_out_perp)))))
    IN  VAdd(r_out_perp, r_out_parallel)

Refract(v, normal, refraction_ratio) ==
    LET cos_theta == FMin(Dot(VNeg(v), normal), I(1))
        r_out_perp == VScale(VAdd(v, VScale(normal, cos_theta)), refraction_ratio)
        r_out_parallel ==
            VScale(normal, FNeg(FSqrt(FAbs(FSub(I(1), LenSquared(r_out_perp))))))
    IN  VAdd(r_out_perp, r_out_parallel)

\* sigma = 1e-8
SigmaDen == 100000000
AbsBelowSigma(x) == x.n = 0 \/ Abs(x.n) <= (x.d - 1) \div SigmaDen
NearZero(a) == AbsBelowSigma(a[1]) /\ AbsBelowSigma(a[2]) /\ AbsBelowSigma(a[3])

(***************************************************************************)
(* Option, Ray, HitRecord, Sphere, Scene (ray_tracing.rs)                  *)
(***************************************************************************)
None == [some |-> FALSE]
Some(v) == [some |-> TRUE, v |-> v]

RayNew(origin, direction) == [origin |-> origin, direction |-> direction]

\* Ray::at
RayAt(ray, t) == VAdd(ray.origin, VScale(ray.direction, t))

\* HitRecord::new without the flip of the normal on a back-face hit
HitRecordNewNoFlip(point, outward_normal, material, ray, t) ==
    [point |-> point, normal |-> outward_normal, material |-> material, t |-> t,
     front_face |-> IsSignNegative(Dot(ray.direction, outward_normal))]

HitRecordNew(point, outward_normal, material, ray, t) ==
    LET front_face == IsSignNegative(Dot(ray.direction, outward_normal))
        normal == IF front_face THEN outward_normal ELSE VNeg(outward_normal)
    IN  [point |-> point, normal |-> normal, material |-> material, t |-> t,
         front_face |-> front_face]

SphereNew(center, radius, material) ==
    [center |-> center, radius |-> radius, material |-> material]

\* is_within_range without the test against t_min
IsWithinRangeNoLower(t, t_bounds) == FLe(t, t_bounds[2])

\* is_within_range with t_max itself left out
IsWithinRangeBelowMax(t, t_bounds) == FGe(t, t_bounds[1]) /\ FLt(t, t_bounds[2])

\* t_bounds is <<t_min, t_max>>
is_within_range(t, t_bounds) == FGe(t, t_bounds[1]) /\ FLe(t, t_bounds[2])

\* the discriminant 4 half_b^2 - 4 a c of the ray/sphere quadratic
Discriminant(sphere, ray) ==
    LET origin_to_center == VSub(ray.origin, sphere.center)
        a == Dot(ray.direction, ray.direction)
        half_b == Dot(origin_to_center, ray.direction)
        c == FSub(Dot(origin_to_center, origin_to_center),
                  FMul(sphere.radius, sphere.radius))
    IN  FSub(FMul(FMul(I(4), half_b), half_b), FMul(FMul(I(4), a), c))

\* impl Hittable for Sphere
SphereHit(sphere, ray, t_bounds) ==
    LET origin_to_center == VSub(ray.origin, sphere.center)
        a == Dot(ray.direction, ray.direction)
        half_b == Dot(origin_to_center, ray.direction)
        discriminant == Discriminant(sphere, ray)
    IN  IF IsSignNegative(discriminant) THEN None
        ELSE LET minus_b_to_a == FDiv(FNeg(half_b), a)
                 divided_discriminant == FDiv(FSqrt(discriminant), FMul(I(2), a))
                 t1 == FSub(minus_b_to_a, divided_discriminant)
                 t2 == FAdd(minus_b_to_a, divided_discriminant)
                 rec(t) == HitRecordNew(RayAt(ray, t),
                                        VDiv(VSub(RayAt(ray, t), sphere.center), sphere.radius),
                                        sphere.material, ray, t)
             IN  IF is_within_range(t1, t_bounds) THEN Some(rec(t1))
                 ELSE IF is_within_range(t2, t_bounds) THEN Some(rec(t2))
                 ELSE None

\* the loop of Scene::hit with every hittable tested against the caller's t_max
RECURSIVE SceneHitLoopNoNarrowing(_, _, _, _, _, _)
SceneHitLoopNoNarrowing(hittables, i, ray, t_min, closest, result) ==
    IF i > Len(hittables) THEN result
    ELSE LET h == SphereHit(hittables[i], ray, <<t_min, closest>>)
         IN  IF h.some
             THEN SceneHitLoopNoNarrowing(hittables, i + 1, ray, t_min, closest, h)
             ELSE SceneHitLoopNoNarrowing(hittables, i + 1, ray, t_min, closest, result)

\* the loop of Scene::hit from hittable i on, with the closest t and result so far
RECURSIVE SceneHitLoop(_, _, _, _, _, _)
SceneHitLoop(hittables, i, ray, t_min, closest, result) ==
    IF i > Len(hittables) THEN result
    ELSE LET h == SphereHit(hittables[i], ray, <<t_min, closest>>)
         IN  IF h.some
             THEN SceneHitLoop(hittables, i + 1, ray, t_min, h.v.t, h)
             ELSE SceneHitLoop(hittables, i + 1, ray, t_min, closest, result)

\* Scene::hit
SceneHit(hittables, ray, t_bounds) ==
    SceneHitLoop(hittables, 1, ray, t_bounds[1], t_bounds[2], None)

\* Scene::add
SceneAdd(hittables, hittable) == Append(hittables, hittable)

(***************************************************************************)
(* Random vectors (vec3.rs).  g, g1, ... are results of rng.gen::<f64>().  *)
(***************************************************************************)
random_double_in_interval(g, interval) ==
    FAdd(interval[1], FMul(FSub(interval[2], interval[1]), g))

RandomInInterval(g1, g2, g3, interval) ==
    <<random_double_in_interval(g1, interval),
      random_double_in_interval(g2, interval),
      random_double_in_interval(g3, interval)>>

\* one pass of the loop of random_in_unit_sphere: the candidate and its test
UnitSphereCandidate(g1, g2, g3) == RandomInInterval(g1, g2, g3, <<I(-1), I(1)>>)
UnitSphereAccepts(v) == FLt(LenSquared(v), I(1))

\* one pass of the loop of random_in_unit_disk
UnitDiskCandidate(g1, g2) ==
    <<random_double_in_interval(g1, <<I(-1), I(1)>>),
      random_double_in_interval(g2, <<I(-1), I(1)>>), I(0)>>
UnitDiskAccepts(v) == FLt(LenSquared(v), I(1))

\* random_in_hemisphere without the negation
RandomInHemisphereNoFlip(in_unit_sphere, normal) == in_unit_sphere

\* random_in_hemisphere, given what random_in_unit_sphere returned
RandomInHemisphere(in_unit_sphere, normal) ==
    IF FGt(Dot(in_unit_sphere, normal), I(0)) THEN in_unit_sphere
    ELSE VNeg(in_unit_sphere)

(***************************************************************************)
(* Materials (material.rs).  A scatter result is None or                   *)
(* Some(<<attenuation, scattered ray>>).                                   *)
(***************************************************************************)
Diffusor(color) == [kind |-> "Diffusor", color |-> color]
Reflector(color, fuzz_coeff) ==
    [kind |-> "Reflector", color |-> color, fuzz_coeff |-> fuzz_coeff]
Refractor(color, fuzz_coeff, refr_coeff) ==
    [kind |-> "Refractor", color |-> color, fuzz_coeff |-> fuzz_coeff,
     refr_coeff |-> refr_coeff]

DiffusorScatter(m, record, in_unit_sphere) ==
    LET scatter_direction == RandomInHemisphere(in_unit_sphere, record.normal)
    IN  IF NearZero(scatter_direction)
        THEN Some(<<m.color, RayNew(record.point, record.normal)>>)
        ELSE Some(<<m.color, RayNew(record.point, scatter_direction)>>)

\* Reflector::scatter without the test of the scattered direction
ReflectorScatterNoTest(m, record, ray, in_unit_sphere) ==
    Some(<<m.color,
           RayNew(record.point,
                  VAdd(Reflect(ToUnit(ray.direction), record.normal),
                       VScale(RandomInHemisphere(in_unit_sphere, record.normal),
                              m.fuzz_coeff)))>>)

ReflectorScatter(m, record, ray, in_unit_sphere) ==
    LET reflected == Reflect(ToUnit(ray.direction), record.normal)
        scattered ==
            RayNew(record.point,
                   VAdd(reflected,
                        VScale(RandomInHemisphere(in_unit_sphere, record.normal),
                               m.fuzz_coeff)))
    IN  IF FGt(Dot(scattered.direction, record.normal), I(0))
        THEN Some(<<m.color, scattered>>)
        ELSE None

shlick_approximation_reflectance(cosine, ref_idx) ==
    LET r0 == FDiv(FSub(I(1), ref_idx), FAdd(I(1), ref_idx))
        r0_squared == FMul(r0, r0)
    IN  FAdd(r0_squared, FMul(FSub(I(1), r0_squared), FPow5(FSub(I(1), cosine))))

RefractionRatio(m, record) ==
    IF record.front_face THEN FDiv(I(1), m.refr_coeff) ELSE m.refr_coeff

CosTheta(record, ray) == FMin(Dot(VNeg(ToUnit(ray.direction)), record.normal), I(1))

\* refraction_ratio * sin_theta > 1.0: when this holds rng.gen() is not called
TotalInternalReflection(m, record, ray) ==
    LET cos_theta == CosTheta(record, ray)
        sin_theta == FSqrt(FSub(I(1), FMul(cos_theta, cos_theta)))
    IN  FGt(FMul(RefractionRatio(m, record), sin_theta), I(1))

\* the condition of the if in Refractor::scatter; g is the draw of the Schlick test
RefractorReflects(m, record, ray, g) ==
    \/ TotalInternalReflection(m, record, ray)
    \/ FGt(shlick_approximation_reflectance(CosTheta(record, ray),
                                            RefractionRatio(m, record)), g)

RefractorScatter(m, record, ray, g, in_unit_sphere) ==
    LET unit_direction == ToUnit(ray.direction)
        fuzz == VScale(RandomInHemisphere(in_unit_sphere, record.normal), m.fuzz_coeff)
    IN  IF RefractorReflects(m, record, ray, g)
        THEN Some(<<m.color,
                    RayNew(record.point, VAdd(Reflect(unit_direction, record.normal), fuzz))>>)
        ELSE Some(<<m.color,
                    RayNew(record.point,
                           VAdd(Refract(unit_direction, record.normal,
                                        RefractionRatio(m, record)), fuzz))>>)

\* dyn Material::scatter
Scatter(m, record, ray, g, in_unit_sphere) ==
    CASE m.kind = "Diffusor" -> DiffusorScatter(m, record, in_unit_sphere)
      [] m.kind = "Reflector" -> ReflectorScatter(m, record, ray, in_unit_sphere)
      [] m.kind = "Refractor" -> RefractorScatter(m, record, ray, g, in_unit_sphere)

(***************************************************************************)
(* Inputs: materials, spheres, rays and bounds the operations are applied  *)
(* to.                                                                     *)
(***************************************************************************)
\* a scene holds at most MaxSpheres hittables
MaxSpheres == 3

T_MIN == Q(1, 1000)

MatGround == Diffusor(<<Q(1, 5), Q(1, 5), Q(1, 5)>>)
MatMirror == Reflector(<<Q(7, 10), Q(3, 5), Q(1, 2)>>, I(0))
MatFuzzy == Reflector(<<Q(1, 2), Q(1, 2), I(1)>>, I(2))
MatGlass == Refractor(<<I(1), I(1), I(1)>>, I(0), Q(3, 2))
MatAir == Refractor(<<I(1), Q(1, 2), I(1)>>, I(0), I(1))

\* the spheres a scene is built from; the first two overlap, the ray origins
\* below lie outside, on and inside them
SphereCatalogue ==
    { SphereNew(VI(0, 0, -5), I(1), MatGround),
      SphereNew(VI(0, 0, -4), I(1), MatMirror),
      SphereNew(VI(0, 0, 0), I(2), MatGlass),
      SphereNew(VI(6, 2, 0), I(1), MatGround) }

\* The last ray is what Diffusor::scatter returns at the point (5, 2, 0) of the
\* fourth sphere for the sample (1/2, 0, 0): random_in_hemisphere negates the
\* sample, and the negation of +0.0 is -0.0.
Rays ==
    { RayNew(VI(0, 0, 0), VI(0, 0, -1)),
      RayNew(VI(0, 0, 2), VI(0, 0, -1)),
      RayNew(VI(0, 0, 3), VI(0, 0, -2)),
      RayNew(VI(0, 0, -9), VI(0, 0, 1)),
      RayNew(VI(0, 5, 0), VI(0, 0, -1)),
      RayNew(VI(0, 2, 0), VI(1, 0, 0)),
      RayNew(VI(3, 0, 1), VI(-3, 0, -4)),
      RayNew(VI(1, 0, 0), VI(0, 1, -3)),
      RayNew(VI(0, 10, -3), <<I(0), I(-1), NegZero>>),
      RayNew(VI(5, 2, 0), <<Q(-1, 2), NegZero, NegZero>>) }

Bounds ==
    { <<T_MIN, INFINITY>>, <<T_MIN, I(4)>>, <<I(0), I(3)>>, <<I(3), Q(11, 2)>> }

\* One hit each: a sphere (centre, radius) and a ray that hits it with exact
\* square roots.  In order: oblique (cos 4/5), head-on, oblique (cos 3/5) and
\* grazing (cos 9/41) front-face hits; oblique (cos 4/5, cos 3/5) and head-on
\* back-face hits from inside; two tangent hits, the first by a direction with
\* -0.0 components.
ScatterCases ==
    { [center |-> VI(0, 0, -4), radius |-> I(1), ray |-> RayNew(VI(3, 0, 1), VI(-3, 0, -4))],
      [center |-> VI(0, 0, -4), radius |-> I(1), ray |-> RayNew(VI(0, 0, 0), VI(0, 0, -1))],
      [center |-> VI(0, 0, -4), radius |-> I(1), ray |-> RayNew(VI(-4, 0, 0), VI(4, 0, -3))],
      [center |-> VI(0, 0, -4), radius |-> I(1), ray |-> RayNew(VI(-40, 0, 6), VI(40, 0, -9))],
      [center |-> VI(0, 0, 0), radius |-> I(5), ray |-> RayNew(VI(3, 0, 0), VI(0, 0, -1))],
      [center |-> VI(0, 0, 0), radius |-> I(5), ray |-> RayNew(VI(4, 0, 0), VI(0, 0, -1))],
      [center |-> VI(0, 0, 0), radius |-> I(5), ray |-> RayNew(VI(0, 0, 0), VI(0, 0, -2))],
      [center |-> VI(0, 0, 0), radius |-> I(5),
       ray |-> RayNew(VI(10, 5, 0), <<Q(-1, 2), NegZero, NegZero>>)],
      [center |-> VI(0, 0, 0), radius |-> I(5), ray |-> RayNew(VI(10, 5, 0), VI(-1, 0, 0))] }

ScatterMaterials == {MatGround, MatMirror, MatFuzzy, MatGlass, MatAir}

\* the recursion depth of Ray::color is at most MaxDepth
MaxDepth == 3

DrawVals == {Q(k, RngDen) : k \in 0..(RngDen - 1)}

(***************************************************************************)
(* State                                                                   *)
(***************************************************************************)
VARIABLES
    hittables,  \* Scene.hittables, in insertion order
    q,          \* the last intersection query and what it returned
    rng,        \* the random source
    stack,      \* the activations of Ray::color: [ray, depth, att], att being
                \* scatter_result.0 once the activation has recursed
    pc,         \* where the top activation is
    retval,     \* the Color being returned
    pend,       \* the scatter call in progress: [record, g]
    sc,         \* the last scatter call that returned and what it returned
    hist,       \* history: the arguments of the first call, the numbers of scene
                \* queries and scatter calls, the attenuations of the bounces,
                \* how the descent ended and the ray that missed the scene
    rd          \* the render loop of main: its position, the image size, the
                \* camera, j, i, the samples taken, the accumulated color,
                \* result_vec, and what was emitted so far

hitVars == <<hittables, q>>
colorVars == <<rng, stack, pc, retval, pend, sc, hist>>
vars == <<hittables, q, rng, stack, pc, retval, pend, sc, hist, rd>>

NoQuery == [kind |-> "none"]
NoScatter == [kind |-> "none"]
NoPend == [kind |-> "none"]
NoRender == [pc |-> "none"]
Black == VI(0, 0, 0)
IdleColor ==
    /\ stack = <<>>
    /\ pc = "idle"
    /\ retval = Black
    /\ pend = NoPend
    /\ sc = NoScatter
    /\ hist = [d0 |-> 0, ray0 |-> RayNew(Black, Black), rng0 |-> [mode |-> "any"],
               nHit |-> 0, nScatter |-> 0, atts |-> <<>>, end |-> "none",
               missed |-> RayNew(Black, Black)]

Idle == rng = [mode |-> "any"] /\ IdleColor

(***************************************************************************)
(* Intersection queries on a scene built by Scene::add                     *)
(***************************************************************************)
InitHit ==
    /\ hittables = <<>>
    /\ q = NoQuery
    /\ rd = NoRender
    /\ Idle

\* scene.add(Box::new(sphere))
AddSphere ==
    /\ pc = "idle"
    /\ Len(hittables) < MaxSpheres
    /\ \E s \in SphereCatalogue : hittables' = SceneAdd(hittables, s)
    /\ q' = NoQuery
    /\ UNCHANGED <<colorVars, rd>>

\* scene.hit(ray, t_bounds), once per scene: q keeps the call and its result
QueryScene ==
    \E ray \in Rays, b \in Bounds :
        /\ pc = "idle"
        /\ q = NoQuery
        /\ q' = [kind |-> "scene", ray |-> ray, t_bounds |-> b,
                 result |-> SceneHit(hittables, ray, b)]
        /\ UNCHANGED <<hittables, colorVars, rd>>

\* hittable.hit(ray, t_bounds) on one hittable of the scene
QuerySphere ==
    \E k \in 1..Len(hittables), ray \in Rays, b \in Bounds :
        /\ pc = "idle"
        /\ q = NoQuery
        /\ q' = [kind |-> "sphere", sphere |-> hittables[k], ray |-> ray,
                 t_bounds |-> b, result |-> SphereHit(hittables[k], ray, b)]
        /\ UNCHANGED <<hittables, colorVars, rd>>

NextHit == AddSphere \/ QueryScene \/ QuerySphere

SpecHit == InitHit /\ [][NextHit]_vars

(***************************************************************************)
(* Intersection queries on scenes of spheres that touch: the first two     *)
(* meet in the point (0, 0, -3), the third lies behind it, and the three   *)
(* differ in their materials                                               *)
(***************************************************************************)
TouchingSpheres ==
    { SphereNew(VI(0, 0, -2), I(1), MatGlass),
      SphereNew(VI(0, 0, -4), I(1), MatMirror),
      SphereNew(VI(0, 0, -6), I(2), MatGround) }

\* scene.add(Box::new(sphere)) of one of the touching spheres
AddTouching ==
    /\ pc = "idle"
    /\ Len(hittables) < MaxSpheres
    /\ \E s \in TouchingSpheres : hittables' = SceneAdd(hittables, s)
    /\ q' = NoQuery
    /\ UNCHANGED <<colorVars, rd>>

NextTie == AddTouching \/ QueryScene \/ QuerySphere

SpecTie == InitHit /\ [][NextTie]_vars

(***************************************************************************)
(* The random source.  In mode "any" every call of rng.gen::<f64>() may    *)
(* return any value of DrawVals; in mode "seq" the source replays the      *)
(* sequence frac(seed + k stride), k = 0, 1, ..., of period RngDen.        *)
(***************************************************************************)
SeqDraw(r, k) == Q((r.seed + (r.pos + k - 1) * r.stride) % RngDen, RngDen)

\* the possible outcomes of n calls of rng.gen(): the values and the source after
Gen(n) ==
    IF rng.mode = "any"
    THEN {[g |-> d, rng |-> rng] : d \in [1..n -> DrawVals]}
    ELSE {[g |-> [k \in 1..n |-> SeqDraw(rng, k)],
           rng |-> [rng EXCEPT !.pos = (@ + n) % RngDen]]}

(***************************************************************************)
(* Ray::color, one activation per stack entry                              *)
(***************************************************************************)
\* the sky gradient of a ray that hits nothing
Sky(ray) ==
    LET unit_direction == ToUnit(ray.direction)
        t == FMul(Q(1, 2), FAdd(unit_direction[2], I(1)))
    IN  VAdd(VScale(VI(1, 1, 1), FSub(I(1), t)),
             VScale(<<Q(1, 2), Q(7, 10), I(1)>>, t))

\* scatter_result.0 times new_color, component by component
Attenuate(att, new_color) ==
    Vec3New(FMul(att[1], new_color[1]), FMul(att[2], new_color[2]),
            FMul(att[3], new_color[3]))

Top == stack[Len(stack)]
Frame(ray, depth) == [ray |-> ray, depth |-> depth, att |-> Black]

\* the recursive call made with the caller's depth
RecurseSameDepth(ray, depth) == Frame(ray, depth)

\* scatter_result.1.color(rng, scene, depth - 1)
Recurse(ray, depth) == Frame(ray, depth - 1)

\* Ray::color up to the call of material.scatter: the depth test, scene.hit, and
\* in Refractor::scatter the draw of the Schlick test (made unless
\* refraction_ratio * sin_theta > 1.0)
ColorCall ==
    /\ pc = "color"
    /\ IF Top.depth = 0
       THEN /\ retval' = Black
            /\ pc' = "ret"
            /\ hist' = [hist EXCEPT !.end = "depth"]
            /\ UNCHANGED <<rng, pend>>
       ELSE LET h == SceneHit(hittables, Top.ray, <<T_MIN, INFINITY>>)
            IN  IF ~h.some
                THEN /\ retval' = Sky(Top.ray)
                     /\ pc' = "ret"
                     /\ hist' = [hist EXCEPT !.nHit = @ + 1, !.end = "miss",
                                              !.missed = Top.ray]
                     /\ UNCHANGED <<rng, pend>>
                ELSE /\ pc' = "sample"
                     /\ hist' = [hist EXCEPT !.nHit = @ + 1, !.nScatter = @ + 1]
                     /\ retval' = retval
                     /\ IF /\ h.v.material.kind = "Refractor"
                           /\ ~TotalInternalReflection(h.v.material, h.v, Top.ray)
                        THEN \E o \in Gen(1) :
                                /\ pend' = [kind |-> "scatter", record |-> h.v, g |-> o.g[1]]
                                /\ rng' = o.rng
                        ELSE /\ pend' = [kind |-> "scatter", record |-> h.v, g |-> I(0)]
                             /\ rng' = rng
    /\ UNCHANGED <<hittables, q, stack, sc, rd>>

\* One pass of the loop of random_in_unit_sphere inside material.scatter.  When
\* the candidate is accepted scatter returns, and Ray::color recurses on the
\* scattered ray with depth - 1 or, on None, returns black.
SampleStep ==
    /\ pc = "sample"
    /\ \E o \in Gen(3) :
          LET v == UnitSphereCandidate(o.g[1], o.g[2], o.g[3])
              m == pend.record.material
              res == Scatter(m, pend.record, Top.ray, pend.g, v)
          IN  /\ rng' = o.rng
              /\ IF ~UnitSphereAccepts(v)
                 THEN UNCHANGED <<stack, pc, retval, pend, sc, hist>>
                 ELSE /\ sc' = [kind |-> m.kind, material |-> m, record |-> pend.record,
                                ray |-> Top.ray, g |-> pend.g, sample |-> v,
                                result |-> res]
                      /\ pend' = NoPend
                      /\ IF res.some
                         THEN /\ stack' = Append([stack EXCEPT ![Len(stack)].att = res.v[1]],
                                                 Recurse(res.v[2], Top.depth))
                              /\ pc' = "color"
                              /\ hist' = [hist EXCEPT !.atts = Append(@, res.v[1])]
                              /\ retval' = retval
                         ELSE /\ retval' = Black
                              /\ pc' = "ret"
                              /\ hist' = [hist EXCEPT !.end = "absorb"]
                              /\ stack' = stack
    /\ UNCHANGED <<hittables, q, rd>>

\* the return of the top activation with the caller passing the value on as it is
ColorReturnNoAttenuate ==
    /\ pc = "ret"
    /\ stack' = SubSeq(stack, 1, Len(stack) - 1)
    /\ pc' = (IF Len(stack) = 1 THEN "done" ELSE "ret")
    /\ retval' = retval
    /\ UNCHANGED <<hittables, q, rng, pend, sc, hist, rd>>

\* the return of the top activation: its caller multiplies the value by
\* scatter_result.0 and returns in turn
ColorReturn ==
    /\ pc = "ret"
    /\ stack' = SubSeq(stack, 1, Len(stack) - 1)
    /\ IF Len(stack) = 1
       THEN pc' = "done" /\ retval' = retval
       ELSE pc' = "ret" /\ retval' = Attenuate(stack[Len(stack) - 1].att, retval)
    /\ UNCHANGED <<hittables, q, rng, pend, sc, hist, rd>>

NextColor == ColorCall \/ SampleStep \/ ColorReturn

\* the state at the call ray.color(rng, scene, depth)
Called(scene, ray, depth, r) ==
    /\ hittables = scene
    /\ q = NoQuery
    /\ rng = r
    /\ stack = <<Frame(ray, depth)>>
    /\ pc = "color"
    /\ retval = Black
    /\ pend = NoPend
    /\ sc = NoScatter
    /\ hist = [d0 |-> depth, ray0 |-> ray, rng0 |-> r, nHit |-> 0, nScatter |-> 0,
               atts |-> <<>>, end |-> "none", missed |-> RayNew(Black, Black)]
    /\ rd = NoRender

(***************************************************************************)
(* One bounce: Ray::color with depth 0 or 1 on a scene of one sphere,      *)
(* under every outcome of the random draws                                 *)
(***************************************************************************)
\* the grazing hit is left out for the glass: its reflectance needs more than 31 bits
ScatterInputs ==
    {<<c, m>> \in ScatterCases \X ScatterMaterials :
        ~(m = MatGlass /\ c.ray.direction = VI(40, 0, -9))}

InitScatter ==
    \E in \in ScatterInputs, depth \in 0..1 :
        Called(<<SphereNew(in[1].center, in[1].radius, in[2])>>, in[1].ray, depth,
               [mode |-> "any"])

SpecScatter == InitScatter /\ [][NextColor]_vars

(***************************************************************************)
(* Ray::color to depth MaxDepth on scenes of several spheres, the random   *)
(* source replaying a sequence                                             *)
(***************************************************************************)
\* two mirrors facing each other
SceneMirrors ==
    <<SphereNew(VI(0, 0, -4), I(1), MatMirror), SphereNew(VI(0, 0, 4), I(1), MatMirror)>>
\* ground, mirror and glass in a row, the glass around the origin
SceneRow ==
    <<SphereNew(VI(0, 0, -5), I(1), MatGround), SphereNew(VI(0, 0, -4), I(1), MatMirror),
      SphereNew(VI(0, 0, 0), I(2), MatGlass)>>
\* a ground sphere beside a fuzzy mirror
SceneFuzzy ==
    <<SphereNew(VI(6, 2, 0), I(1), MatGround), SphereNew(VI(0, 0, 0), I(2), MatFuzzy)>>
\* a mirror that sends the ray (3, 0, 1) -> (-3, 0, -4) head-on to a large sphere,
\* the large sphere being ground and mirror
SceneMirrorGround ==
    <<SphereNew(VI(0, 0, -4), I(1), MatMirror), SphereNew(VI(-6, 0, 5), I(5), MatGround)>>
SceneMirrorMirror ==
    <<SphereNew(VI(0, 0, -4), I(1), MatMirror), SphereNew(VI(-6, 0, 5), I(5), MatMirror)>>

ObliqueRays == {RayNew(VI(3, 0, 1), VI(-3, 0, -4)), RayNew(VI(1, 0, 0), VI(0, 1, -3))}

\* the scenes and first rays of Ray::color; left out are the pairs on which a
\* numerator or denominator leaves the 32-bit integers
ColorInputs ==
    ({SceneMirrors, SceneMirrorGround, SceneMirrorMirror} \X Rays)
        \cup ({SceneRow} \X (Rays \ ObliqueRays))
        \cup ({SceneFuzzy} \X
                (Rays \ (ObliqueRays \cup {RayNew(VI(0, 0, 0), VI(0, 0, -1)),
                                           RayNew(VI(0, 0, 2), VI(0, 0, -1)),
                                           RayNew(VI(0, 2, 0), VI(1, 0, 0))})))

SeqRngs ==
    {[mode |-> "seq", seed |-> a, stride |-> b, pos |-> 0] :
        a \in 0..(RngDen - 1), b \in 0..(RngDen - 1)}

InitColor ==
    \E in \in ColorInputs, depth \in 0..MaxDepth, r \in SeqRngs :
        Called(in[1], in[2], depth, r)

SpecColor == InitColor /\ [][NextColor]_vars

(***************************************************************************)
(* Camera (ray_tracing.rs) and the render loop of main (main.rs)           *)
(***************************************************************************)
\* Camera::new; tan_half_fov stands for (fov / 2.0).tan()
CameraNew(look_from, look_at, vector_up, tan_half_fov, aspect_ratio, aperture, focus_distance) ==
    LET h == tan_half_fov
        viewport_height == FMul(h, I(2))
        viewport_width == FMul(aspect_ratio, viewport_height)
        w == ToUnit(VSub(look_from, look_at))
        u == ToUnit(CrossProduct(vector_up, w))
        v == CrossProduct(w, u)
        horizontal == VScale(u, FMul(focus_distance, viewport_width))
        vertical == VScale(v, FMul(focus_distance, viewport_height))
        lower_left ==
            VSub(VSub(VSub(look_from, VDiv(horizontal, I(2))), VDiv(vertical, I(2))),
                 VScale(w, focus_distance))
    IN  [origin |-> look_from, lower_left |-> lower_left, horizontal |-> horizontal,
         vertical |-> vertical, u |-> u, v |-> v, lens_radius |-> FDiv(aperture, I(2))]

\* Camera::create_ray, in_unit_disk being what random_in_unit_disk returned
CreateRay(camera, in_unit_disk, s_, t_) ==
    LET rd_ == VScale(in_unit_disk, camera.lens_radius)
        offset == VAdd(VScale(camera.u, rd_[1]), VScale(camera.v, rd_[2]))
    IN  RayNew(VAdd(camera.origin, offset),
               VSub(VSub(VAdd(VAdd(camera.lower_left, VScale(camera.horizontal, s_)),
                              VScale(camera.vertical, t_)),
                         camera.origin),
                    offset))

\* clamp without the test against bounds.1
ClampNoUpper(val, bounds) == IF FLt(val, bounds[1]) THEN bounds[1] ELSE val

clamp(val, bounds) ==
    IF FLt(val, bounds[1]) THEN bounds[1]
    ELSE IF FGt(val, bounds[2]) THEN bounds[2]
    ELSE val

\* (clamp(c.sqrt(), (0.0, 0.999)) * 256.0), the value that is cast
Scaled(c) == FMul(clamp(FSqrt(c), <<I(0), Q(999, 1000)>>), I(256))

\* f64 as u8: truncation, saturating at 0 and 255
AsU8(x) ==
    IF x.n < 0 THEN 0
    ELSE IF x.n \div x.d > 255 THEN 255
    ELSE x.n \div x.d

\* the image is at most MaxWidth by MaxHeight, MaxSamples samples a pixel
MaxWidth == 3
MaxHeight == 2
MaxSamples == 2

RenderScenes ==
    { <<SphereNew(VI(0, -3, 0), I(2), MatGround),
        SphereNew(VI(1, 0, 0), I(1), Diffusor(<<Q(1, 2), Q(1, 2), I(1)>>))>> }

\* a camera at (0, 0, 2) looking at the origin, of aspect ratio 1 and aperture 0
RenderCamera ==
    CameraNew(VI(0, 0, 2), VI(0, 0, 0), VI(0, 1, 0), Q(1, 2), I(1), I(0), I(1))

\* the state of main at line 115, before the first pixel.  The depth is 0 or 1:
\* the camera rays bounce at most once here, deeper recursion is what SpecColor
\* covers
RenderStart(width, height, samples_per_pixel, depth, r, run, first) ==
    [pc |-> "sample", width |-> width, height |-> height,
     samples_per_pixel |-> samples_per_pixel, depth |-> depth,
     camera |-> RenderCamera,
     j |-> height - 1, i |-> 0, n |-> 0, color |-> Black, u |-> I(0), v |-> I(0),
     result_vec |-> <<>>, order |-> <<>>, taken |-> <<>>, scaled |-> <<>>,
     marks |-> <<>>, rng0 |-> r, run |-> run, first |-> first]

NoFirst == [result_vec |-> <<>>, marks |-> <<>>, rng |-> [mode |-> "none"]]

InitRender ==
    \E scene \in RenderScenes, width \in 2..MaxWidth, height \in 2..MaxHeight,
       samples_per_pixel \in 1..MaxSamples, depth \in 0..1, r \in SeqRngs :
        /\ hittables = scene
        /\ q = NoQuery
        /\ IdleColor
        /\ rng = r
        /\ rd = RenderStart(width, height, samples_per_pixel, depth, r, 1, NoFirst)

\* lines 119-120: the draws of u and v
SampleBegin ==
    /\ rd.pc = "sample"
    /\ \E o \in Gen(2) :
          /\ rng' = o.rng
          /\ rd' = [rd EXCEPT !.u = FDiv(FAdd(I(rd.i), o.g[1]), I(rd.width - 1)),
                              !.v = FDiv(FAdd(I(rd.j), o.g[2]), I(rd.height - 1)),
                              !.pc = "disk"]
    /\ UNCHANGED <<hittables, q, stack, pc, retval, pend, sc, hist>>

\* one pass of the loop of random_in_unit_disk in create_ray; once a candidate
\* is accepted create_ray returns and .color(&mut rng, &scene, depth) is called
DiskStep ==
    /\ rd.pc = "disk"
    /\ \E o \in Gen(2) :
          LET v == UnitDiskCandidate(o.g[1], o.g[2])
              ray == CreateRay(rd.camera, v, rd.u, rd.v)
          IN  /\ rng' = o.rng
              /\ IF ~UnitDiskAccepts(v)
                 THEN UNCHANGED <<stack, pc, hist, rd>>
                 ELSE /\ stack' = <<Frame(ray, rd.depth)>>
                      /\ pc' = "color"
                      /\ hist' = [d0 |-> rd.depth, ray0 |-> ray, rng0 |-> o.rng,
                                  nHit |-> 0, nScatter |-> 0, atts |-> <<>>,
                                  end |-> "none", missed |-> RayNew(Black, Black)]
                      /\ rd' = [rd EXCEPT !.pc = "trace"]
    /\ UNCHANGED <<hittables, q, retval, pend, sc>>

\* color += (the color returned) * scale
Accumulate ==
    /\ rd.pc = "trace"
    /\ pc = "done"
    /\ pc' = "idle"
    /\ rd' = [rd EXCEPT !.color = VAdd(@, VScale(retval, FDiv(I(1), I(rd.samples_per_pixel)))),
                        !.n = @ + 1,
                        !.pc = IF rd.n + 1 = rd.samples_per_pixel THEN "emit" ELSE "sample"]
    /\ UNCHANGED <<hittables, q, rng, stack, retval, pend, sc, hist>>

\* the loops over rows and columns taken from row 0 upwards
NextPixelRowsUp(j, i, width, height) ==
    IF i < width - 1 THEN [j |-> j, i |-> i + 1, pc |-> "sample"]
    ELSE IF j < height - 1 THEN [j |-> j + 1, i |-> 0, pc |-> "sample"]
    ELSE [j |-> j, i |-> i, pc |-> "end"]

\* for j in (0..height).rev() { for i in 0..width { ... } }: the pixel after (j, i)
NextPixel(j, i, width, height) ==
    IF i < width - 1 THEN [j |-> j, i |-> i + 1, pc |-> "sample"]
    ELSE IF j > 0 THEN [j |-> j - 1, i |-> 0, pc |-> "sample"]
    ELSE [j |-> j, i |-> i, pc |-> "end"]

\* lines 126-129: the four pushes, and the step of the loops
EmitPixel ==
    /\ rd.pc = "emit"
    /\ LET s_ == <<Scaled(rd.color[1]), Scaled(rd.color[2]), Scaled(rd.color[3])>>
           nx == NextPixel(rd.j, rd.i, rd.width, rd.height)
       IN  rd' = [rd EXCEPT !.result_vec = @ \o <<AsU8(s_[1]), AsU8(s_[2]), AsU8(s_[3]), 255>>,
                            !.order = Append(@, <<rd.j, rd.i>>),
                            !.taken = Append(@, rd.n),
                            !.scaled = Append(@, s_),
                            !.marks = Append(@, rng.pos),
                            !.color = Black, !.n = 0,
                            !.j = nx.j, !.i = nx.i, !.pc = nx.pc]
    /\ UNCHANGED <<hittables, q, rng, stack, pc, retval, pend, sc, hist>>

\* a render that wears the scene: the first hittable is gone afterwards
RenderAgainOnWornScene ==
    /\ rd.pc = "end"
    /\ rd.run = 1
    /\ rng' = rd.rng0
    /\ hittables' = Tail(hittables)
    /\ rd' = RenderStart(rd.width, rd.height, rd.samples_per_pixel, rd.depth, rd.rng0, 2,
                         [result_vec |-> rd.result_vec, marks |-> rd.marks, rng |-> rng])
    /\ UNCHANGED <<q, stack, pc, retval, pend, sc, hist>>

\* a second render of the same scene, camera, size, depth and sample count,
\* fed the draws of the first from their beginning
RenderAgain ==
    /\ rd.pc = "end"
    /\ rd.run = 1
    /\ rng' = rd.rng0
    /\ rd' = RenderStart(rd.width, rd.height, rd.samples_per_pixel, rd.depth, rd.rng0, 2,
                         [result_vec |-> rd.result_vec, marks |-> rd.marks, rng |-> rng])
    /\ UNCHANGED <<hittables, q, stack, pc, retval, pend, sc, hist>>

NextRender ==
    \/ SampleBegin
    \/ DiskStep
    \/ ColorCall
    \/ SampleStep
    \/ ColorReturn
    \/ Accumulate
    \/ EmitPixel
    \/ RenderAgain

SpecRender == InitRender /\ [][NextRender]_vars

(***************************************************************************)
(* Properties of the intersection queries                                  *)
(***************************************************************************)
\* what the hittables of the scene report one by one within the bounds of the query
IndividualHits ==
    {h \in {SphereHit(hittables[k], q.ray, q.t_bounds) : k \in 1..Len(hittables)} : h.some}

\* C1: Scene::hit returns None exactly when no hittable reports a hit within the
\* original bounds, and otherwise one of the records the hittables report, with
\* the smallest t among them, whatever the insertion order.
C1_SceneHitNearest ==
    q.kind = "scene" =>
        /\ q.result.some <=> IndividualHits # {}
        /\ q.result.some =>
              /\ q.result \in IndividualHits
              /\ \A h \in IndividualHits : FLe(q.result.v.t, h.v.t)

\* a scene of three hittables that all report a hit, the nearest being the second
\* inserted: the third is cut off by the narrowed bound
C1_Witness ==
    /\ q.kind = "scene"
    /\ Len(hittables) = 3
    /\ \A k \in 1..3 : SphereHit(hittables[k], q.ray, q.t_bounds).some
    /\ LET t(k) == SphereHit(hittables[k], q.ray, q.t_bounds).v.t
       IN  FLt(t(2), t(1)) /\ FLt(t(2), t(3))
    /\ q.result = SphereHit(hittables[2], q.ray, q.t_bounds)

\* the parameter of the point of the ray nearest to the centre: the mean of the roots
QMid == FDiv(Dot(VSub(q.sphere.center, q.ray.origin), q.ray.direction),
             LenSquared(q.ray.direction))
\* half the distance of the roots, where the discriminant is a rational square
QHalfGap ==
    FSqrt(FDiv(Discriminant(q.sphere, q.ray),
               FMul(I(4), FMul(LenSquared(q.ray.direction), LenSquared(q.ray.direction)))))
QRoot1 == FSub(QMid, QHalfGap)
QRoot2 == FAdd(QMid, QHalfGap)
QExact ==
    /\ ~FLt(Discriminant(q.sphere, q.ray), I(0))
    /\ FEq(FMul(FSqrt(Discriminant(q.sphere, q.ray)), FSqrt(Discriminant(q.sphere, q.ray))),
           Discriminant(q.sphere, q.ray))
OnSphere(sphere, p) ==
    FEq(LenSquared(VSub(p, sphere.center)), FMul(sphere.radius, sphere.radius))
QInRange(t) == FLe(q.t_bounds[1], t) /\ FLe(t, q.t_bounds[2])

\* C2: Sphere::hit returns None on a negative discriminant; otherwise the record
\* of the smaller root t1 if it is within [t_min, t_max], else of the larger root
\* t2 if that is, else None.  A returned t is within the bounds, is a root (the
\* point is on the sphere) and is the nearest root within the bounds; with
\* t_min = 0.001 the root 0 of a ray that starts on the surface is not returned.
C2_SphereHitRoots ==
    q.kind = "sphere" =>
        /\ FLt(Discriminant(q.sphere, q.ray), I(0)) => ~q.result.some
        /\ q.result.some => QInRange(q.result.v.t)
        /\ q.result.some => VEq(q.result.v.point, RayAt(q.ray, q.result.v.t))
        /\ QExact =>
              /\ FLe(QRoot1, QRoot2)
              /\ OnSphere(q.sphere, RayAt(q.ray, QRoot1))
              /\ OnSphere(q.sphere, RayAt(q.ray, QRoot2))
              /\ q.result.some <=> (QInRange(QRoot1) \/ QInRange(QRoot2))
              /\ q.result.some =>
                    FEq(q.result.v.t, IF QInRange(QRoot1) THEN QRoot1 ELSE QRoot2)
        /\ (q.result.some /\ q.t_bounds[1] = T_MIN) => FGt(q.result.v.t, I(0))

\* a ray that starts on the surface (smaller root 0) with t_min = 0.001: the
\* larger root is returned
C2_Witness ==
    /\ q.kind = "sphere"
    /\ q.t_bounds = <<T_MIN, INFINITY>>
    /\ QExact
    /\ FEq(QRoot1, I(0))
    /\ q.result.some
    /\ FEq(q.result.v.t, QRoot2)
    /\ FGt(QRoot2, I(0))

\* the outward normal Sphere::hit hands to HitRecord::new
QOutwardNormal == VDiv(VSub(q.result.v.point, q.sphere.center), q.sphere.radius)
QDirDotOutward == Dot(q.ray.direction, QOutwardNormal)
QOriginInside ==
    FLt(LenSquared(VSub(q.ray.origin, q.sphere.center)),
        FMul(q.sphere.radius, q.sphere.radius))

\* C3 as stated: front_face is true iff direction . outward_normal < 0, normal is
\* the outward normal or its negation accordingly, direction . normal <= 0, and
\* a ray from inside the sphere gets front_face = false.
C3_FrontFaceIffNegative ==
    (q.kind = "sphere" /\ q.result.some) =>
        /\ q.result.v.front_face <=> FLt(QDirDotOutward, I(0))
        /\ q.result.v.normal =
              (IF q.result.v.front_face THEN QOutwardNormal ELSE VNeg(QOutwardNormal))
        /\ FLe(Dot(q.ray.direction, q.result.v.normal), I(0))
        /\ QOriginInside => ~q.result.v.front_face

\* C3 amended: front_face is true iff direction . outward_normal has its sign bit
\* set, that is, is < 0 or is -0.0; the rest as stated.
C3_FrontFaceIffSignBit ==
    (q.kind = "sphere" /\ q.result.some) =>
        /\ q.result.v.front_face <=>
              (FLt(QDirDotOutward, I(0)) \/ QDirDotOutward = NegZero)
        /\ q.result.v.normal =
              (IF q.result.v.front_face THEN QOutwardNormal ELSE VNeg(QOutwardNormal))
        /\ FLe(Dot(q.ray.direction, q.result.v.normal), I(0))
        /\ QOriginInside => ~q.result.v.front_face

\* a ray from inside the sphere: a back-face hit with the normal flipped
C3_Witness ==
    /\ q.kind = "sphere"
    /\ q.result.some
    /\ QOriginInside
    /\ ~q.result.v.front_face
    /\ FGt(QDirDotOutward, I(0))
    /\ q.result.v.normal = VNeg(QOutwardNormal)

(***************************************************************************)
(* Properties of the materials                                             *)
(***************************************************************************)
\* the incoming unit direction, the cosine of the angle of incidence and the
\* scattered ray of the last scatter call
ScUnit == ToUnit(sc.ray.direction)
ScCos == FMin(FNeg(Dot(ScUnit, sc.record.normal)), I(1))
ScOut == sc.result.v[2]
ScIsAir ==
    /\ sc.kind = "Refractor"
    /\ FEq(sc.material.refr_coeff, I(1))
    /\ FEq(sc.material.fuzz_coeff, I(0))

\* C5 as stated: with refr_coeff = 1.0 and fuzz_coeff = 0 the scattered direction
\* equals the incoming unit direction, for every angle, face and random draw.
C5_AirNeverBends ==
    ScIsAir => (sc.result.some /\ VEq(ScOut.direction, ScUnit))

\* C5 amended: the direction equals the incoming unit direction when the draw g
\* of the Schlick test is >= (1 - cos_theta)^5 (always at head-on incidence);
\* for a smaller draw the ray is reflected about the normal, which changes the
\* direction unless the hit is tangent.
C5_AirBendsOnlyWhenReflected ==
    ScIsAir =>
        /\ sc.result.some
        /\ ScOut.origin = sc.record.point
        /\ IF FLt(sc.g, FPow5(FSub(I(1), ScCos)))
           THEN /\ VEq(ScOut.direction,
                       VSub(ScUnit,
                            VScale(sc.record.normal,
                                   FMul(I(2), Dot(ScUnit, sc.record.normal)))))
                /\ FGt(ScCos, I(0)) => ~VEq(ScOut.direction, ScUnit)
           ELSE VEq(ScOut.direction, ScUnit)
        /\ FEq(ScCos, I(1)) => VEq(ScOut.direction, ScUnit)

\* an oblique back-face hit with a positive draw that passes straight through
C5_Witness ==
    /\ ScIsAir
    /\ ~sc.record.front_face
    /\ FGt(ScCos, I(0)) /\ FLt(ScCos, I(1))
    /\ FGt(sc.g, I(0))
    /\ FGe(sc.g, FPow5(FSub(I(1), ScCos)))
    /\ sc.result.some
    /\ VEq(ScOut.direction, ScUnit)

\* C6: Diffusor::scatter always returns Some(color, ray): the attenuation is the
\* material's color, the ray starts at the hit point, its direction d has
\* d . normal >= 0 and is not near-zero, and is the normal itself when the
\* hemisphere sample is near-zero.
C6_DiffusorNeverAbsorbs ==
    sc.kind = "Diffusor" =>
        /\ sc.result.some
        /\ sc.result.v[1] = sc.material.color
        /\ ScOut.origin = sc.record.point
        /\ FGe(Dot(ScOut.direction, sc.record.normal), I(0))
        /\ ~NearZero(ScOut.direction)
        /\ NearZero(sc.sample) => ScOut.direction = sc.record.normal
        /\ ~NearZero(sc.sample) =>
              \/ ScOut.direction = sc.sample
              \/ ScOut.direction = VNeg(sc.sample)

\* the sample (0, 0, 0): the direction falls back to the normal
C6_Witness ==
    /\ sc.kind = "Diffusor"
    /\ NearZero(sc.sample)
    /\ sc.result.some
    /\ ScOut.direction = sc.record.normal
    /\ FGt(Dot(ScOut.direction, sc.record.normal), I(0))

\* the direction Reflector::scatter tests
ScPerturbed ==
    VAdd(Reflect(ScUnit, sc.record.normal),
         VScale(RandomInHemisphere(sc.sample, sc.record.normal), sc.material.fuzz_coeff))

\* C7: Reflector::scatter returns None exactly when the perturbed direction has
\* dot product <= 0 with the normal, and otherwise Some(color, ray from the hit
\* point along it), so a returned ray has direction . normal > 0; Ray::color
\* returns black when the material absorbs.
C7_ReflectorAbsorbs ==
    /\ sc.kind = "Reflector" =>
          /\ ~sc.result.some <=> FLe(Dot(ScPerturbed, sc.record.normal), I(0))
          /\ sc.result.some =>
                /\ sc.result.v = <<sc.material.color, RayNew(sc.record.point, ScPerturbed)>>
                /\ FGt(Dot(ScOut.direction, sc.record.normal), I(0))
    /\ (sc.kind # "none" /\ ~sc.result.some /\ pc \in {"ret", "done"}) => VEq(retval, Black)
    /\ (hist.end = "absorb" /\ pc = "done") => VEq(retval, Black)

\* a Reflector has absorbed the ray and Ray::color has returned black
C7_Witness ==
    /\ sc.kind = "Reflector"
    /\ ~sc.result.some
    /\ FLe(Dot(ScPerturbed, sc.record.normal), I(0))
    /\ hist.end = "absorb"
    /\ pc = "done"
    /\ VEq(retval, Black)


(***************************************************************************)
(* Properties of Ray::color                                                *)
(***************************************************************************)
\* the activations of Ray::color carry the depths d0, d0 - 1, ..., and the
\* numbers of scene queries and scatter calls stay within d0
C4_DepthInv ==
    /\ \A k \in 1..Len(stack) : stack[k].depth = hist.d0 - (k - 1)
    /\ Len(stack) <= hist.d0 + 1
    /\ hist.nHit <= hist.d0
    /\ hist.nScatter <= hist.d0
    /\ hist.end = "depth" => VEq(retval, Black)

\* what is left to do: 0 when done, the activations to return from when
\* returning, and above that a count that falls with the depth
C4_Measure ==
    CASE pc = "color" -> hist.d0 + 2 * Top.depth + 3
      [] pc = "sample" -> hist.d0 + 2 * Top.depth + 2
      [] pc = "ret" -> Len(stack)
      [] OTHER -> 0

C4_DepthStep ==
    /\ (pc = "color" /\ Top.depth = 0) =>
           /\ pc' = "ret"
           /\ VEq(retval', Black)
           /\ hist'.nHit = hist.nHit
           /\ rng' = rng
    /\ \/ pc = "sample" /\ pc' = "sample"
       \/ C4_Measure' < C4_Measure

\* C4: Ray::color terminates whenever each scatter call returns, and the depth
\* bounds the recursion: a call with depth d makes at most d scene queries and
\* at most d scatter calls, every nested call has depth one less, and a call
\* with depth 0 returns black without querying the scene.  Termination: every
\* step other than a retry of the sampling loop inside scatter lowers
\* C4_Measure, which starts at 3 d + 3 and is never negative.
C4_DepthBoundsRecursion == [](C4_DepthInv) /\ [][C4_DepthStep]_vars

C4_Witness ==
    /\ pc = "done"
    /\ hist.d0 >= 2
    /\ hist.end = "depth"
    /\ hist.nHit = hist.d0
    /\ hist.nScatter = hist.d0

\* the running product of the attenuations, from the first bounce on
RECURSIVE C10_Product(_, _)
C10_Product(acc, atts) ==
    IF atts = <<>> THEN acc ELSE C10_Product(Attenuate(acc, Head(atts)), Tail(atts))

C10_Advance(r, n) == [r EXCEPT !.pos = (@ + n) % RngDen]
C10_Sample(r) == UnitSphereCandidate(SeqDraw(r, 1), SeqDraw(r, 2), SeqDraw(r, 3))
\* the passes of the sampling loop, counted from 0, that accept
C10_Tries(r) == {k \in 0..(RngDen - 1) : UnitSphereAccepts(C10_Sample(C10_Advance(r, 3 * k)))}

\* Ray::color as a loop that keeps the running product acc: n counts the scene
\* queries, r is the random source
RECURSIVE C10_Loop(_, _, _, _, _)
C10_Loop(ray, depth, acc, r, n) ==
    IF depth = 0
    THEN [returns |-> TRUE, color |-> Black, rng |-> r, nHit |-> n]
    ELSE LET h == SceneHit(hittables, ray, <<T_MIN, INFINITY>>)
         IN  IF ~h.some
             THEN [returns |-> TRUE, color |-> Attenuate(acc, Sky(ray)), rng |-> r,
                   nHit |-> n + 1]
             ELSE LET m == h.v.material
                      draws == m.kind = "Refractor" /\ ~TotalInternalReflection(m, h.v, ray)
                      g == IF draws THEN SeqDraw(r, 1) ELSE I(0)
                      r1 == IF draws THEN C10_Advance(r, 1) ELSE r
                      tries == C10_Tries(r1)
                  IN  IF tries = {}
                      THEN [returns |-> FALSE, color |-> Black, rng |-> r1, nHit |-> n + 1]
                      ELSE LET k == CHOOSE i \in tries : \A j \in tries : i <= j
                               v == C10_Sample(C10_Advance(r1, 3 * k))
                               r2 == C10_Advance(r1, 3 * (k + 1))
                               res == Scatter(m, h.v, ray, g, v)
                           IN  IF ~res.some
                               THEN [returns |-> TRUE, color |-> Black, rng |-> r2,
                                     nHit |-> n + 1]
                               ELSE C10_Loop(res.v[2], depth - 1,
                                             Attenuate(acc, res.v[1]), r2, n + 1)

\* C10: the recursion of Ray::color computes what a loop with a running
\* attenuation product computes: the product of the attenuations times the sky
\* gradient of the first ray that misses the scene, or black when the depth
\* runs out or a material absorbs first; both make the same number of scene
\* queries and leave the random source at the same place.
C10_RecursionEqualsLoop ==
    pc = "done" =>
        LET L == C10_Loop(hist.ray0, hist.d0, VI(1, 1, 1), hist.rng0, 0)
        IN  /\ L.returns
            /\ VEq(retval, L.color)
            /\ rng = L.rng
            /\ hist.nHit = L.nHit
            /\ VEq(retval, IF hist.end = "miss"
                           THEN Attenuate(C10_Product(VI(1, 1, 1), hist.atts),
                                          Sky(hist.missed))
                           ELSE Black)

C10_Witness ==
    /\ pc = "done"
    /\ hist.end = "miss"
    /\ Len(hist.atts) >= 2
    /\ hist.atts[1] # hist.atts[2]
    /\ ~VEq(retval, Black)
    /\ rng # hist.rng0


(***************************************************************************)
(* Properties of the render loop                                           *)
(***************************************************************************)
\* the row and column of the p-th pixel of a row-major scan from the top row down
C8_Row(p) == rd.height - 1 - ((p - 1) \div rd.width)
C8_Col(p) == (p - 1) % rd.width

\* the p-th pixel emitted: its place, its samples and its four bytes
C8_PixelOk(p) ==
    /\ rd.order[p] = <<C8_Row(p), C8_Col(p)>>
    /\ rd.taken[p] = rd.samples_per_pixel
    /\ rd.result_vec[4 * p] = 255
    /\ \A c \in 1..3 :
          LET byte == rd.result_vec[4 * (p - 1) + c]
              x == rd.scaled[p][c]
          IN  /\ byte \in 0..255
              /\ FGe(x, I(0))
              /\ FLe(x, FMul(Q(999, 1000), I(256)))
              /\ byte = x.n \div x.d

\* C8: pixels are emitted row by row from row height-1 down to row 0 and in a
\* row from column 0 to width-1; a pixel is four bytes R, G, B, A with A = 255,
\* emitted after exactly samples_per_pixel samples; the finished buffer holds
\* 4 * width * height bytes; every R, G, B byte is the integer part of a value
\* clamped to [0, 0.999] and scaled by 256, so it lies in 0..255.
C8_RenderOrder ==
    rd.pc # "none" =>
        /\ Len(rd.result_vec) = 4 * Len(rd.order)
        /\ \A p \in 1..Len(rd.order) : C8_PixelOk(p)
        /\ rd.n <= rd.samples_per_pixel
        /\ rd.pc = "emit" => rd.n = rd.samples_per_pixel
        /\ rd.pc \in {"sample", "disk", "trace"} =>
               /\ rd.n < rd.samples_per_pixel
               /\ <<rd.j, rd.i>> = <<C8_Row(Len(rd.order) + 1), C8_Col(Len(rd.order) + 1)>>
        /\ rd.pc = "end" => Len(rd.result_vec) = 4 * rd.width * rd.height

C8_Witness ==
    /\ rd.pc = "end"
    /\ rd.width # rd.height
    /\ rd.samples_per_pixel >= 2
    /\ \E p \in 1..Len(rd.order) : rd.result_vec[4 * p - 1] = 255
    /\ \E p \in 1..Len(rd.order) : rd.result_vec[4 * p - 1] < 255
    /\ \E p, r \in 1..Len(rd.order) : rd.result_vec[4 * p - 3] # rd.result_vec[4 * r - 3]

C11_Reports ==
    [k \in 1..Len(hittables) |-> SphereHit(hittables[k], q.ray, q.t_bounds)]

\* the hittables that report the smallest t of all
C11_Tied(rep) ==
    {k \in DOMAIN rep :
        /\ rep[k].some
        /\ \A j \in DOMAIN rep : rep[j].some => FLe(rep[k].v.t, rep[j].v.t)}

C11_Last(S) == CHOOSE k \in S : \A j \in S : j <= k

\* a root of the quadratic that equals t_min or t_max
C11_OnBound(t) == FEq(t, q.t_bounds[1]) \/ FEq(t, q.t_bounds[2])
C11_Within(t) == FLe(q.t_bounds[1], t) /\ FLe(t, q.t_bounds[2])

\* C11: when several hittables report the same nearest t, Scene::hit returns
\* the record, material included, of the one inserted last among them; and a
\* root of a sphere that equals t_min or t_max exactly is accepted: the near
\* root whenever it lies on a bound, the far root when it lies on a bound and
\* the near root is out of range.
C11_TieGoesToLast ==
    /\ q.kind = "scene" =>
           LET rep == C11_Reports
               tied == C11_Tied(rep)
           IN  tied # {} =>
                   /\ q.result = rep[C11_Last(tied)]
                   /\ q.result.v.material = hittables[C11_Last(tied)].material
    /\ (q.kind = "sphere" /\ QExact) =>
           /\ (C11_OnBound(QRoot1) /\ C11_Within(QRoot1)) =>
                  q.result.some /\ FEq(q.result.v.t, QRoot1)
           /\ (C11_OnBound(QRoot2) /\ C11_Within(QRoot2) /\ ~C11_Within(QRoot1)) =>
                  q.result.some /\ FEq(q.result.v.t, QRoot2)

\* three hittables of three materials: the first two report t = t_min, the
\* first by its far root, and the third reports a larger t; the result is the
\* record of the second
C11_Witness ==
    /\ q.kind = "scene"
    /\ Len(hittables) = 3
    /\ C11_Tied(C11_Reports) = {1, 2}
    /\ C11_Reports[3].some
    /\ \A j, k \in 1..3 : j # k => hittables[j].material # hittables[k].material
    /\ FEq(C11_Reports[1].v.t, q.t_bounds[1])
    /\ ~C11_Reports[1].v.front_face
    /\ q.result = C11_Reports[2]
    /\ q.result # C11_Reports[1]

=============================================================================
